---- MODULE Spec2Model ----
(***************************************************************************)
(* Model of src/components/GoogleMapCard.tsx: the GoogleMapCard React      *)
(* component.  One state of the model is the component between two event   *)
(* handlers: its React state, its refs, what the last render put on the    *)
(* page, the document/window it runs in, and the timers, callbacks and     *)
(* provider queries still in flight.  One action is one handler, run to    *)
(* completion together with the render and the effects it causes.          *)
(***************************************************************************)
EXTENDS Integers, Sequences, FiniteSets, TLC

\* ------------------------------------------------------------------ bounds
\* presses of the "Retry Loading Map" button
MaxRetryClicks == 1
\* changes of the next-themes theme (each one re-runs the readiness effect)
MaxThemeChanges == 1
\* leading entries of the category table that a run queries
MaxCategories == 1
\* provider queries of one run that await their response at the same time
MaxInFlight == 2
\* places in one provider response, where the provider finds places
MaxResults == 1
\* location updates the mounted monitor evaluates
MaxEvaluations == 5
\* features in the feature collection the boundary service returns
MaxFeatures == 1
\* distances from the origin a place can have: 1..MaxDist, standing for the
\* kilometres calculateDistance returns in their order
MaxDist == 2
\* leading entries of the category table that the run of SearchSpec queries
SearchCategories == 2

\* ------------------------------------------------------- program constants
\* if (retryCount < 3)
MaxRetries == 3
\* results.slice(0, 3)
SliceLimit == 3
\* id: index * 10 + placeIndex
IdStride == 10
\* }, index * 200)
StaggerMs == 200

\* The category table of searchNearbyFishingPlaces, in its order.
SearchTable ==
  << "marina", "fishing_spot", "bait_shop", "safety_station", "port",
     "fishing_charter", "boat_ramp" >>

NoError == "none"
LoaderErrors == {"api_key_missing", "api_not_available", "exhausted_retries"}
LocationErrors ==
  {"geo_unsupported", "permission_denied", "position_unavailable", "timeout", "unknown"}
MapErrors == {"map_create_failed", "places_init_failed"}

\* error.code of a failed getCurrentPosition; "other" is any code the switch
\* does not name.
GeoErrorCodes == {"PERMISSION_DENIED", "POSITION_UNAVAILABLE", "TIMEOUT", "other"}

\* What the boundary fetch can end in.
FetchOutcomes ==
  {"valid", "transport_error", "http_error", "not_collection", "zero_features"}

\* What the fetch can settle with: the promise rejected, or a response with
\* response.ok and a body: not JSON ("invalid_json"), JSON without the type
\* FeatureCollection ("none": null or no type; "Feature"), or a feature
\* collection; features is data.features.length, -1 without data.features.
FetchResponses ==
  { [rejected |-> TRUE, ok |-> FALSE, type |-> "none", features |-> -1],
    [rejected |-> FALSE, ok |-> FALSE, type |-> "none", features |-> -1],
    [rejected |-> FALSE, ok |-> TRUE, type |-> "invalid_json", features |-> -1],
    [rejected |-> FALSE, ok |-> TRUE, type |-> "none", features |-> -1],
    [rejected |-> FALSE, ok |-> TRUE, type |-> "Feature", features |-> MaxFeatures] }
    \cup { [rejected |-> FALSE, ok |-> TRUE, type |-> "FeatureCollection",
             features |-> n] : n \in -1..MaxFeatures }

\* fetchResponse before the fetch has settled.
NoResponse == [rejected |-> FALSE, ok |-> FALSE, type |-> "unsettled", features |-> -1]

\* Faulty variant of FetchOutcomeOf: a collection without features passes.
FetchOutcomeOfAcceptsEmpty(resp) ==
  IF resp.rejected THEN "transport_error"
  ELSE IF ~resp.ok THEN "http_error"
  ELSE IF resp.type # "FeatureCollection" THEN "not_collection"
  ELSE IF resp.features < 0 THEN "zero_features"
  ELSE "valid"

\* The try block of fetchEezBoundary: await fetch, if (!response.ok) throw,
\* await response.json(), the validation of data.
FetchOutcomeOf(resp) ==
  IF resp.rejected THEN "transport_error"
  ELSE IF ~resp.ok THEN "http_error"
  ELSE IF resp.type # "FeatureCollection" THEN "not_collection"
  ELSE IF resp.features < 1 THEN "zero_features"
  ELSE "valid"

\* How one call of initializeMap can go: both constructors work, new
\* google.maps.Map throws, or new google.maps.places.PlacesService throws.
InitOutcomes == {"ok", "map_throws", "places_throws"}

\* A place of a provider response: with place.geometry.location at distance
\* km from the origin of the run, or without geometry.
PlacesWithin(maxDist) ==
  { [geometry |-> TRUE, distance |-> d] : d \in 1..maxDist }
    \cup { [geometry |-> FALSE, distance |-> 0] }

PlaceChoices == PlacesWithin(MaxDist)

\* Result lists of at most maxLen places.
ResultListsOf(maxLen, maxDist) ==
  UNION { [1..n -> PlacesWithin(maxDist)] : n \in 0..maxLen }

\* Result lists the provider can return with status OK.
ResultLists == ResultListsOf(MaxResults, MaxDist)

\* Result lists one place longer than results.slice(0, 3) keeps, of one place
\* repeated.
LongLists(maxDist) ==
  { [i \in 1..(SliceLimit + 1) |-> p] : p \in PlacesWithin(maxDist) }

\* (results, status) of a nearbySearch callback whose status is not OK.
FailedResponses ==
  { [status |-> st, results |-> << >>] : st \in {"ZERO_RESULTS", "OVER_QUERY_LIMIT"} }

\* (results, status) of one nearbySearch callback.
ProviderResponses ==
  { [status |-> "OK", results |-> r] : r \in ResultLists } \cup FailedResponses

\* The callbacks of a provider that finds no place.
EmptyResponses ==
  { [status |-> "OK", results |-> << >>] } \cup FailedResponses

\* The callbacks of a provider that also returns over-long result lists.
SearchResponses ==
  ProviderResponses \cup { [status |-> "OK", results |-> r] : r \in LongLists(MaxDist) }

\* The callbacks of a provider that finds one place with a location, or fails.
SinglePlaceResponses ==
  { [status |-> "OK", results |-> << p >>] :
      p \in { q \in PlaceChoices : q.geometry } } \cup FailedResponses

VARIABLES
  \* React state and refs (lines 62-74)
  mounted,             \* isMounted
  isLoading,           \* isLoading, initially true
  error,               \* error: NoError for null, else a tag of the message
  isGoogleMapsLoaded,  \* isGoogleMapsLoaded
  retryCount,          \* retryCount
  userLocation,        \* "null", "measured" or "fallback" (13.0827, 80.2707)
  eezBoundary,         \* "null" or "loaded" (a feature collection with features)
  fishingPOIs,         \* fishingPOIs: the published ranked sequence
  theme,               \* useTheme().theme
  googleMapRef,        \* googleMapRef.current is set
  \* what the last render mounted (lines 829-836)
  monitorMounted,      \* FishingBorderMonitor is rendered
  \* the page the component runs in
  windowGoogle,        \* window.google && window.google.maps
  scripts,             \* script elements with src maps.googleapis.com: their load
                       \* state and the retryCount their handlers closed over
  apiKey,              \* NEXT_PUBLIC_GOOGLE_MAPS_API_KEY is set
  geoSupported,        \* navigator.geolocation exists
  searches,            \* the category list a run iterates over (lines 587-596)
  provider,            \* the (results, status) pairs nearbySearch can call back with
  \* asynchronous work in flight
  fetchState,          \* "idle", "pending" or the outcome of fetchEezBoundary
  fetchResponse,       \* what the fetch of fetchEezBoundary settled with
  locState,            \* "idle", "pending" or "done": getCurrentPosition
  settleTimers,        \* pending timeouts of script.onload (line 154)
  retryTimers,         \* pending timeouts of script.onerror (line 169), each
                       \* with the retryCount its loadGoogleMaps closed over
  pollers,             \* running checkLoaded intervals (line 130)
  runs,                \* searchNearbyFishingPlaces calls with callbacks to come
  \* EngineLoader's state machine (spec 4.4) as the calls of loadGoogleMaps
  \* and its handlers drive it
  loaderState,         \* "NotStarted", "Loading", "Ready" or "Failed"
  failReason,          \* reason of the last Failed
  \* history
  loadAttempts,        \* script elements appended by loadGoogleMaps (line 176)
  initCalls,           \* calls of initializeMap by the readiness effect
  toasts,              \* toast.success / toast.error calls
  runsStarted,         \* calls of searchNearbyFishingPlaces
  runsPublished,       \* calls of setFishingPOIs
  lastRun,             \* the locals of the run that called setFishingPOIs last
  placesFailures,      \* 'Failed to initialize location services' set (line 423)
  evaluations,         \* the containment results the mounted monitor computed
  borderAlerts,        \* borderAlerts: the direction of each alert, in order
  retryClicks, themeChanges

vars ==
  << mounted, isLoading, error, isGoogleMapsLoaded, retryCount, userLocation,
     eezBoundary, fishingPOIs, theme, googleMapRef, monitorMounted,
     windowGoogle, scripts, apiKey, geoSupported, searches, provider,
     fetchState, fetchResponse, locState, settleTimers, retryTimers, pollers, runs,
     loaderState, failReason, loadAttempts, initCalls, toasts,
     runsStarted, runsPublished, lastRun, placesFailures, retryClicks,
     themeChanges, evaluations, borderAlerts >>

\* The state of the FishingBorderMonitor and of its onBorderCrossing handler.
monitorVars == << evaluations, borderAlerts >>

\* The variables no handler of the component writes.
envVars == << windowGoogle, apiKey, geoSupported, searches, provider >>

\* ------------------------------------------------------------- handler context
\* What a handler can write before the render that follows it.
Cur ==
  [ isLoading |-> isLoading, error |-> error,
    isGoogleMapsLoaded |-> isGoogleMapsLoaded, retryCount |-> retryCount,
    userLocation |-> userLocation, eezBoundary |-> eezBoundary,
    fishingPOIs |-> fishingPOIs, theme |-> theme,
    scripts |-> scripts, pollers |-> pollers,
    loaderState |-> loaderState, failReason |-> failReason,
    loadAttempts |-> loadAttempts, locState |-> locState, toasts |-> toasts,
    settleTimers |-> settleTimers, retryTimers |-> retryTimers ]

\* The map <div ref={mapRef}> is rendered only by the last branch of
\* renderContent: not loading and no error.
MapRefCurrent(h) == ~h.isLoading /\ h.error = NoError

\* {googleMapRef.current && userLocation && <FishingBorderMonitor .../>}
MonitorRendered(h, ref) == MapRefCurrent(h) /\ ref /\ h.userLocation # "null"

\* The dependency list of the readiness effect.
DepsChanged(h) ==
  \/ h.isGoogleMapsLoaded # isGoogleMapsLoaded
  \/ h.userLocation # userLocation
  \/ h.theme # theme
  \/ h.eezBoundary # eezBoundary

\* Faulty variant of ReadinessGate: the boundary slot is not tested.
ReadinessGateNoBoundary(h) ==
  h.isGoogleMapsLoaded /\ h.userLocation # "null" /\ MapRefCurrent(h)

\* if (isGoogleMapsLoaded && userLocation && mapRef.current && eezBoundary)
ReadinessGate(h) ==
  h.isGoogleMapsLoaded /\ h.userLocation # "null" /\ MapRefCurrent(h)
    /\ h.eezBoundary # "null"

\* if (!mapRef.current || !userLocation || !window.google) return;
InitGuardPasses(h) ==
  MapRefCurrent(h) /\ h.userLocation # "null" /\ windowGoogle

\* Faulty variant of StaggerDelay: every timer is set with the same delay.
StaggerDelayFlat(index) == 0 * index

\* The delay of the timer searches.forEach sets for category index.
StaggerDelay(index) == index * StaggerMs

\* searchNearbyFishingPlaces: the locals of one run and its timers.  serial
\* numbers the calls; timers holds the categories whose timeout has not fired;
\* log lists the queries that finished, in the order they finished, each with
\* the status and the results it ended with ("THROWN": nearbySearch threw).
NewRun(origin) ==
  [ origin |-> origin, serial |-> runsStarted,
    timers |-> 0..(Len(searches) - 1), dispatched |-> 0, pending |-> {},
    searchesCompleted |-> 0, allPOIs |-> << >>, published |-> 0, log |-> << >> ]

\* lastRun before any run has published.
NoRun ==
  [ origin |-> "null", serial |-> -1, timers |-> {}, dispatched |-> 0,
    pending |-> {}, searchesCompleted |-> 0, allPOIs |-> << >>, published |-> 0,
    log |-> << >> ]

ReactChanged(h) ==
  \/ h.isLoading # isLoading
  \/ h.error # error
  \/ h.isGoogleMapsLoaded # isGoogleMapsLoaded
  \/ h.retryCount # retryCount
  \/ h.userLocation # userLocation
  \/ h.eezBoundary # eezBoundary
  \/ h.theme # theme

\* Faulty variant of StartsRun: the search is started although the
\* PlacesService could not be constructed.
StartsRunAnyway(inits, o) == inits /\ o # "map_throws"

\* initializeMap reaches searchNearbyFishingPlaces(service, userLocation, map):
\* neither constructor threw.
StartsRun(inits, o) == inits /\ o = "ok"

\* The end of every handler: the state it set is committed, the component
\* renders (when a state changed, or force: a new array was published), and
\* the readiness effect runs when one of its dependencies changed.  rs is the
\* value of runs the handler leaves.
Apply(h, rs, force) ==
  \E o \in InitOutcomes :
    LET fires == DepsChanged(h) /\ ReadinessGate(h)
        inits == fires /\ InitGuardPasses(h)
        err == IF inits /\ o = "map_throws" THEN "map_create_failed"
               ELSE IF inits /\ o = "places_throws" THEN "places_init_failed"
               ELSE h.error
        ref == googleMapRef \/ (inits /\ o # "map_throws")
    IN /\ (~inits => o = "ok")
       /\ isLoading' = h.isLoading
       /\ error' = err
       /\ isGoogleMapsLoaded' = h.isGoogleMapsLoaded
       /\ retryCount' = h.retryCount
       /\ userLocation' = h.userLocation
       /\ eezBoundary' = h.eezBoundary
       /\ fishingPOIs' = h.fishingPOIs
       /\ theme' = h.theme
       /\ scripts' = h.scripts
       /\ pollers' = h.pollers
       /\ loaderState' = h.loaderState
       /\ failReason' = h.failReason
       /\ loadAttempts' = h.loadAttempts
       /\ locState' = h.locState
       /\ toasts' = h.toasts
       /\ settleTimers' = h.settleTimers
       /\ retryTimers' = h.retryTimers
       /\ googleMapRef' = ref
       /\ initCalls' = initCalls + (IF fires THEN 1 ELSE 0)
       /\ runs' = IF StartsRun(inits, o) THEN Append(rs, NewRun(h.userLocation)) ELSE rs
       /\ runsStarted' = runsStarted + (IF StartsRun(inits, o) THEN 1 ELSE 0)
       /\ placesFailures' = placesFailures
                             + (IF inits /\ o = "places_throws" THEN 1 ELSE 0)
       /\ monitorMounted' =
            IF err # h.error THEN MonitorRendered([h EXCEPT !.error = err], ref)
            ELSE IF force \/ ReactChanged(h) THEN MonitorRendered(h, googleMapRef)
            ELSE monitorMounted

\* ------------------------------------------------------------- EngineLoader
\* Faulty variant of LoadGoogleMaps: no test for an existing script element.
LoadGoogleMapsNoMarker(h, rc) ==
  IF windowGoogle
    THEN [h EXCEPT !.isGoogleMapsLoaded = TRUE, !.loaderState = "Ready"]
  ELSE IF ~apiKey
    THEN [h EXCEPT !.error = "api_key_missing", !.isLoading = FALSE,
                   !.loaderState = "Failed", !.failReason = "missing_credentials"]
  ELSE [h EXCEPT !.scripts = Append(@, [state |-> "loading", rc |-> rc]),
                 !.loadAttempts = @ + 1, !.loaderState = "Loading"]

\* Faulty variant of LoadGoogleMaps: the existing-script test passes over a
\* script element whose load has failed.
LoadGoogleMapsIgnoresFailed(h, rc) ==
  IF windowGoogle
    THEN [h EXCEPT !.isGoogleMapsLoaded = TRUE, !.loaderState = "Ready"]
  ELSE IF \E i \in 1..Len(h.scripts) : h.scripts[i].state # "failed"
    THEN [h EXCEPT !.pollers = @ + 1, !.loaderState = "Loading"]
  ELSE IF ~apiKey
    THEN [h EXCEPT !.error = "api_key_missing", !.isLoading = FALSE,
                   !.loaderState = "Failed", !.failReason = "missing_credentials"]
  ELSE [h EXCEPT !.scripts = Append(@, [state |-> "loading", rc |-> rc]),
                 !.loadAttempts = @ + 1, !.loaderState = "Loading"]

\* loadGoogleMaps, called from a render whose retryCount was rc.
LoadGoogleMaps(h, rc) ==
  IF windowGoogle
    THEN [h EXCEPT !.isGoogleMapsLoaded = TRUE, !.loaderState = "Ready"]
  ELSE IF h.scripts # << >>
    THEN [h EXCEPT !.pollers = @ + 1, !.loaderState = "Loading"]
  ELSE IF ~apiKey
    THEN [h EXCEPT !.error = "api_key_missing", !.isLoading = FALSE,
                   !.loaderState = "Failed", !.failReason = "missing_credentials"]
  ELSE [h EXCEPT !.scripts = Append(@, [state |-> "loading", rc |-> rc]),
                 !.loadAttempts = @ + 1, !.loaderState = "Loading"]

\* getCurrentLocation up to the point where it returns.
GetCurrentLocation(h) ==
  IF ~geoSupported
    THEN [h EXCEPT !.error = "geo_unsupported", !.userLocation = "fallback",
                   !.isLoading = FALSE, !.toasts = @ + 1, !.locState = "done"]
    ELSE [h EXCEPT !.isLoading = TRUE, !.locState = "pending"]

\* Faulty variant of OnLoadSettle: an absent API surface is handled like a
\* script error, by the retry policy.
OnLoadSettleRetries(h) ==
  IF windowGoogle
    THEN [h EXCEPT !.isGoogleMapsLoaded = TRUE, !.loaderState = "Ready"]
  ELSE IF h.retryCount < MaxRetries
    THEN [h EXCEPT !.retryCount = @ + 1, !.retryTimers = Append(@, h.retryCount)]
  ELSE [h EXCEPT !.error = "exhausted_retries", !.isLoading = FALSE,
                 !.loaderState = "Failed", !.failReason = "exhausted_retries"]

\* The timeout set by script.onload, 100 ms after the load event.
OnLoadSettle(h) ==
  IF windowGoogle
    THEN [h EXCEPT !.isGoogleMapsLoaded = TRUE, !.loaderState = "Ready"]
    ELSE [h EXCEPT !.error = "api_not_available", !.isLoading = FALSE,
                   !.loaderState = "Failed", !.failReason = "api_not_available"]

\* script.onerror of a script created by a render whose retryCount was rc.
OnScriptError(h, rc) ==
  IF rc < MaxRetries
    THEN [h EXCEPT !.retryCount = @ + 1, !.retryTimers = Append(@, rc)]
    ELSE [h EXCEPT !.error = "exhausted_retries", !.isLoading = FALSE,
                   !.loaderState = "Failed", !.failReason = "exhausted_retries"]

\* The body of the checkLoaded interval when the engine has appeared.
OnPollLoaded(h) ==
  [h EXCEPT !.pollers = @ - 1, !.isGoogleMapsLoaded = TRUE, !.loaderState = "Ready"]

\* ---------------------------------------------------------- LocationProvider
\* switch (error.code)
ClassifyGeoError(code) ==
  CASE code = "PERMISSION_DENIED" -> "permission_denied"
    [] code = "POSITION_UNAVAILABLE" -> "position_unavailable"
    [] code = "TIMEOUT" -> "timeout"
    [] OTHER -> "unknown"

\* Faulty variant of OnPosition: no toast.success.
OnPositionSilent(h) ==
  [h EXCEPT !.userLocation = "measured", !.isLoading = FALSE, !.error = NoError,
            !.locState = "done"]

\* The success callback of getCurrentPosition.
OnPosition(h) ==
  [h EXCEPT !.userLocation = "measured", !.isLoading = FALSE, !.error = NoError,
            !.toasts = @ + 1, !.locState = "done"]

\* Faulty variant of OnPositionError: the fallback coordinate is not stored.
OnPositionErrorNoFallback(h, code) ==
  [h EXCEPT !.error = ClassifyGeoError(code),
            !.isLoading = FALSE, !.toasts = @ + 1, !.locState = "done"]

\* The error callback of getCurrentPosition.
OnPositionError(h, code) ==
  [h EXCEPT !.userLocation = "fallback", !.error = ClassifyGeoError(code),
            !.isLoading = FALSE, !.toasts = @ + 1, !.locState = "done"]

\* ------------------------------------------------------------- BoundaryStore
\* Faulty variant of OnFetchSettled: the catch block also sets the error.
OnFetchSettledRaises(h, outcome) ==
  IF outcome = "valid" THEN [h EXCEPT !.eezBoundary = "loaded"]
  ELSE [h EXCEPT !.eezBoundary = "null", !.error = "unknown"]

\* fetchEezBoundary after the fetch has settled with outcome.
OnFetchSettled(h, outcome) ==
  [h EXCEPT !.eezBoundary = IF outcome = "valid" THEN "loaded" ELSE "null"]

\* ---------------------------------------------------------------- the page
\* The component after construction, on a page whose windowGoogle is chosen.
Constructed ==
  /\ mounted = FALSE
  /\ isLoading = TRUE
  /\ error = NoError
  /\ isGoogleMapsLoaded = FALSE
  /\ retryCount = 0
  /\ userLocation = "null"
  /\ eezBoundary = "null"
  /\ fishingPOIs = << >>
  /\ theme = "light"
  /\ googleMapRef = FALSE
  /\ monitorMounted = FALSE
  /\ scripts = IF windowGoogle THEN << [state |-> "loaded", rc |-> 0] >> ELSE << >>
  /\ fetchState = "idle"
  /\ fetchResponse = NoResponse
  /\ locState = "idle"
  /\ settleTimers = 0
  /\ retryTimers = << >>
  /\ pollers = 0
  /\ runs = << >>
  /\ loaderState = "NotStarted"
  /\ failReason = "none"
  /\ loadAttempts = 0
  /\ initCalls = 0
  /\ runsStarted = 0
  /\ runsPublished = 0
  /\ toasts = 0
  /\ lastRun = NoRun
  /\ placesFailures = 0
  /\ evaluations = << >>
  /\ borderAlerts = << >>
  /\ retryClicks = 0
  /\ themeChanges = 0

Init ==
  /\ windowGoogle \in BOOLEAN
  /\ apiKey \in BOOLEAN
  /\ geoSupported \in BOOLEAN
  /\ searches = SubSeq(SearchTable, 1, MaxCategories)
  /\ provider = EmptyResponses
  /\ Constructed

\* The effects of the first commit: fetchEezBoundary(), then loadGoogleMaps()
\* and getCurrentLocation().
Mount ==
  /\ ~mounted
  /\ mounted' = TRUE
  /\ fetchState' = "pending"
  /\ Apply(GetCurrentLocation(LoadGoogleMaps(Cur, retryCount)), runs, TRUE)
  /\ UNCHANGED << envVars, monitorVars, fetchResponse, runsPublished, lastRun, retryClicks,
                  themeChanges >>

\* The load event of script element i; the API surface may already be attached.
ScriptLoad(i) ==
  /\ scripts[i].state = "loading"
  /\ \E attached \in BOOLEAN : windowGoogle' = (windowGoogle \/ attached)
  /\ scripts' = [scripts EXCEPT ![i].state = "loaded"]
  /\ settleTimers' = settleTimers + 1
  /\ UNCHANGED << mounted, isLoading, error, isGoogleMapsLoaded, retryCount,
                  userLocation, eezBoundary, fishingPOIs, theme, googleMapRef,
                  monitorMounted, apiKey, geoSupported, searches, provider, fetchState, fetchResponse,
                  locState, retryTimers, pollers, runs, loaderState, failReason,
                  loadAttempts, initCalls, toasts, runsStarted, runsPublished,
                  lastRun, placesFailures, retryClicks, themeChanges,
                  monitorVars >>

\* The engine attaches window.google.maps some time after its script loaded.
GoogleAttach ==
  /\ ~windowGoogle
  /\ \E i \in 1..Len(scripts) : scripts[i].state = "loaded"
  /\ windowGoogle' = TRUE
  /\ UNCHANGED << mounted, isLoading, error, isGoogleMapsLoaded, retryCount,
                  userLocation, eezBoundary, fishingPOIs, theme, googleMapRef,
                  monitorMounted, scripts, apiKey, geoSupported, searches, provider,
                  fetchState, fetchResponse, locState, settleTimers, retryTimers, pollers, runs,
                  loaderState, failReason, loadAttempts, initCalls, toasts,
                  runsStarted, runsPublished, lastRun, placesFailures,
                  retryClicks, themeChanges, monitorVars >>

\* The settle timeout of a loaded script fires.
SettleTimer ==
  /\ settleTimers > 0
  /\ Apply(OnLoadSettle([Cur EXCEPT !.settleTimers = @ - 1]), runs, FALSE)
  /\ UNCHANGED << mounted, envVars, monitorVars, fetchState, fetchResponse, runsPublished, lastRun, retryClicks, themeChanges >>

\* The error event of script element i.
ScriptError(i) ==
  /\ scripts[i].state = "loading"
  /\ Apply(OnScriptError([Cur EXCEPT !.scripts[i].state = "failed"], scripts[i].rc),
           runs, FALSE)
  /\ UNCHANGED << mounted, envVars, monitorVars, fetchState, fetchResponse, runsPublished, lastRun, retryClicks, themeChanges >>

\* setTimeout(() => loadGoogleMaps(), 2000) fires.
RetryTimer ==
  /\ retryTimers # << >>
  /\ Apply(LoadGoogleMaps([Cur EXCEPT !.retryTimers = Tail(@)], Head(retryTimers)),
           runs, FALSE)
  /\ UNCHANGED << mounted, envVars, monitorVars, fetchState, fetchResponse, runsPublished, lastRun, retryClicks, themeChanges >>

\* One tick of a checkLoaded interval.
PollTick ==
  /\ pollers > 0
  /\ IF windowGoogle
       THEN /\ Apply(OnPollLoaded(Cur), runs, FALSE)
            /\ UNCHANGED << mounted, envVars, monitorVars, fetchState, fetchResponse, runsPublished, lastRun, retryClicks, themeChanges >>
       ELSE UNCHANGED vars

LocationSuccess ==
  /\ locState = "pending"
  /\ Apply(OnPosition(Cur), runs, FALSE)
  /\ UNCHANGED << mounted, envVars, monitorVars, fetchState, fetchResponse, runsPublished, lastRun, retryClicks, themeChanges >>

LocationError(code) ==
  /\ locState = "pending"
  /\ Apply(OnPositionError(Cur, code), runs, FALSE)
  /\ UNCHANGED << mounted, envVars, monitorVars, fetchState, fetchResponse, runsPublished, lastRun, retryClicks, themeChanges >>

\* Faulty variant of FetchSettle: the fetch is made again after it settled.
FetchSettleRepeats(outcome) ==
  /\ fetchState # "idle"
  /\ fetchState' = outcome
  /\ \E resp \in FetchResponses :
       FetchOutcomeOf(resp) = outcome /\ fetchResponse' = resp
  /\ Apply(OnFetchSettled(Cur, outcome), runs, FALSE)
  /\ UNCHANGED << mounted, envVars, monitorVars, runsPublished, lastRun, retryClicks, themeChanges >>

\* The fetch of fetchEezBoundary settles and the rest of the function runs.
FetchSettle(outcome) ==
  /\ fetchState = "pending"
  /\ fetchState' = outcome
  /\ \E resp \in FetchResponses :
       FetchOutcomeOf(resp) = outcome /\ fetchResponse' = resp
  /\ Apply(OnFetchSettled(Cur, outcome), runs, FALSE)
  /\ UNCHANGED << mounted, envVars, monitorVars, runsPublished, lastRun, retryClicks, themeChanges >>

\* useTheme() returns another theme.
ThemeChange ==
  /\ mounted
  /\ themeChanges < MaxThemeChanges
  /\ themeChanges' = themeChanges + 1
  /\ Apply([Cur EXCEPT !.theme = IF @ = "light" THEN "dark" ELSE "light"], runs, FALSE)
  /\ UNCHANGED << mounted, envVars, monitorVars, fetchState, fetchResponse, runsPublished, lastRun, retryClicks >>

\* onClick of "Retry Loading Map", shown by the error branch of renderContent.
RetryClick ==
  /\ mounted /\ ~isLoading /\ error # NoError
  /\ retryClicks < MaxRetryClicks
  /\ retryClicks' = retryClicks + 1
  /\ Apply(LoadGoogleMaps([Cur EXCEPT !.error = NoError, !.isLoading = TRUE,
                                      !.retryCount = 0], retryCount), runs, FALSE)
  /\ UNCHANGED << mounted, envVars, monitorVars, fetchState, fetchResponse, runsPublished, lastRun, themeChanges >>

\* --------------------------------------------------------- SearchOrchestrator
Min(a, b) == IF a < b THEN a ELSE b

\* Faulty variant of MapPlaces: the id is index + placeIndex.
RECURSIVE MapPlacesFlatIds(_, _, _)
MapPlacesFlatIds(index, results, k) ==
  IF k >= Min(Len(results), SliceLimit) THEN << >>
  ELSE (IF ~results[k + 1].geometry THEN << >>
        ELSE << [ id |-> index + k, type |-> searches[index + 1],
                  distance |-> results[k + 1].distance ] >>)
       \o MapPlacesFlatIds(index, results, k + 1)

\* Faulty variant of MapPlaces: the results are not sliced.
RECURSIVE MapPlacesUnsliced(_, _, _)
MapPlacesUnsliced(index, results, k) ==
  IF k >= Len(results) THEN << >>
  ELSE (IF ~results[k + 1].geometry THEN << >>
        ELSE << [ id |-> index * IdStride + k, type |-> searches[index + 1],
                  distance |-> results[k + 1].distance ] >>)
       \o MapPlacesUnsliced(index, results, k + 1)

\* results.slice(0, 3).forEach((place, placeIndex) => ...) from placeIndex k on:
\* a place is represented by its distance from the run's origin, as
\* calculateDistance returns it.
RECURSIVE MapPlaces(_, _, _)
MapPlaces(index, results, k) ==
  IF k >= Min(Len(results), SliceLimit) THEN << >>
  ELSE (IF ~results[k + 1].geometry THEN << >>
        ELSE << [ id |-> index * IdStride + k, type |-> searches[index + 1],
                  distance |-> results[k + 1].distance ] >>)
       \o MapPlaces(index, results, k + 1)

\* Faulty variant of InsertByDistance: x goes before the entries as far as it.
RECURSIVE InsertBeforeEqual(_, _)
InsertBeforeEqual(sorted, x) ==
  IF sorted = << >> THEN << x >>
  ELSE IF x.distance <= Head(sorted).distance THEN << x >> \o sorted
  ELSE << Head(sorted) >> \o InsertBeforeEqual(Tail(sorted), x)

\* allPOIs.sort((a, b) => a.distance - b.distance): Array.prototype.sort is
\* stable, so x goes behind every entry that is not farther than it.
RECURSIVE InsertByDistance(_, _)
InsertByDistance(sorted, x) ==
  IF sorted = << >> THEN << x >>
  ELSE IF x.distance < Head(sorted).distance THEN << x >> \o sorted
  ELSE << Head(sorted) >> \o InsertByDistance(Tail(sorted), x)

RECURSIVE SortByDistance(_)
SortByDistance(pois) ==
  IF pois = << >> THEN << >>
  ELSE InsertByDistance(SortByDistance(SubSeq(pois, 1, Len(pois) - 1)), pois[Len(pois)])

\* Faulty variant of Finalize: the sequence is published at every callback.
FinalizeEveryCallback(run) ==
  [run EXCEPT !.allPOIs = SortByDistance(@), !.published = @ + 1]

\* if (searchesCompleted === searches.length) { sort; setFishingPOIs(allPOIs) }
Finalize(run) ==
  IF run.searchesCompleted = Len(searches)
    THEN [run EXCEPT !.allPOIs = SortByDistance(@), !.published = @ + 1]
    ELSE run

\* Faulty variant of OnNearbySearch: the query is counted and its results
\* are not pushed.
OnNearbySearchDropsResults(run, index, resp) ==
  Finalize([run EXCEPT !.searchesCompleted = @ + 1,
                       !.pending = @ \ {index},
                       !.log = Append(@, [index |-> index, status |-> resp.status,
                                          results |-> resp.results])])

\* The nearbySearch callback of category index in a run.
OnNearbySearch(run, index, resp) ==
  Finalize([run EXCEPT !.searchesCompleted = @ + 1,
                       !.pending = @ \ {index},
                       !.log = Append(@, [index |-> index, status |-> resp.status,
                                          results |-> resp.results]),
                       !.allPOIs = @ \o (IF resp.status = "OK"
                                           THEN MapPlaces(index, resp.results, 0)
                                           ELSE << >>)])

\* Faulty variant of OnNearbySearchThrows: the catch block does not count the
\* query.
OnNearbySearchThrowsUncounted(run, index) ==
  [run EXCEPT !.log = Append(@, [index |-> index, status |-> "THROWN",
                                 results |-> << >>])]

\* The catch block around service.nearbySearch of category index.
OnNearbySearchThrows(run, index) ==
  Finalize([run EXCEPT !.searchesCompleted = @ + 1,
                       !.log = Append(@, [index |-> index, status |-> "THROWN",
                                          results |-> << >>])])

\* runs without its r-th entry.
RemoveRun(r) == SubSeq(runs, 1, r - 1) \o SubSeq(runs, r + 1, Len(runs))

\* Faulty variant of RunStep: the sequence of the run is appended to the
\* published one.
RunStepMerges(r, run2) ==
  LET pub == run2.published # runs[r].published
      over == run2.searchesCompleted >= Len(searches)
  IN /\ Apply(IF pub THEN [Cur EXCEPT !.fishingPOIs = @ \o run2.allPOIs] ELSE Cur,
              IF over THEN RemoveRun(r) ELSE [runs EXCEPT ![r] = run2], pub)
     /\ runsPublished' = runsPublished + (IF pub THEN 1 ELSE 0)
     /\ lastRun' = IF pub THEN run2 ELSE lastRun

\* A step of run r that leaves it as run2: fishingPOIs is set when the run
\* published.  After the callback of its last query nothing refers to the
\* locals of a run any more, and the run leaves runs.
RunStep(r, run2) ==
  LET pub == run2.published # runs[r].published
      over == run2.searchesCompleted >= Len(searches)
  IN /\ Apply(IF pub THEN [Cur EXCEPT !.fishingPOIs = run2.allPOIs] ELSE Cur,
              IF over THEN RemoveRun(r) ELSE [runs EXCEPT ![r] = run2], pub)
     /\ runsPublished' = runsPublished + (IF pub THEN 1 ELSE 0)
     /\ lastRun' = IF pub THEN run2 ELSE lastRun

\* A timer of run r fires and its callback sends the query of category index:
\* the timers of a run were all set in one forEach, so the one that fires is
\* one with the least delay.
SearchDispatch(r) ==
  /\ Cardinality(runs[r].pending) < MaxInFlight
  /\ \E index \in runs[r].timers :
       /\ \A j \in runs[r].timers : StaggerDelay(index) <= StaggerDelay(j)
       /\ LET sent == [runs[r] EXCEPT !.dispatched = @ + 1, !.timers = @ \ {index}]
          IN \E throws \in BOOLEAN :
               RunStep(r, IF throws THEN OnNearbySearchThrows(sent, index)
                          ELSE [sent EXCEPT !.pending = @ \cup {index}])
  /\ UNCHANGED << mounted, envVars, monitorVars, fetchState, fetchResponse, retryClicks, themeChanges >>

\* The provider answers the query of category index of run r.
SearchResponse(r, index) ==
  /\ index \in runs[r].pending
  /\ \E resp \in provider : RunStep(r, OnNearbySearch(runs[r], index, resp))
  /\ UNCHANGED << mounted, envVars, monitorVars, fetchState, fetchResponse, retryClicks, themeChanges >>

\* ------------------------------------------------------------ BoundaryMonitor
\* What one evaluation of the monitor emits, given the evaluations before it
\* and its containment result: nothing for the first evaluation and when the
\* result is that of the evaluation before, else the direction of the change.
MonitorEvaluate(before, result) ==
  IF before = << >> \/ before[Len(before)] = result THEN "none"
  ELSE IF result = "inside" THEN "entered" ELSE "exited"

\* Faulty variant of HandleBorderCrossing: the alert replaces the log.
HandleBorderCrossingReplaces(alerts, border) == << border >>

\* handleBorderCrossing: setBorderAlerts(prev => [...prev, border])
HandleBorderCrossing(alerts, border) == Append(alerts, border)

\* A location update reaches the mounted monitor, which evaluates containment
\* in the boundary it was given (no evaluation without one) and calls
\* onBorderCrossing with what it emits.  The render that setBorderAlerts
\* causes shows what was shown.
MonitorUpdate(result) ==
  /\ monitorMounted /\ eezBoundary # "null"
  /\ Len(evaluations) < MaxEvaluations
  /\ evaluations' = Append(evaluations, result)
  /\ borderAlerts' =
       IF MonitorEvaluate(evaluations, result) = "none" THEN borderAlerts
       ELSE HandleBorderCrossing(borderAlerts, MonitorEvaluate(evaluations, result))
  /\ UNCHANGED << mounted, isLoading, error, isGoogleMapsLoaded, retryCount,
                  userLocation, eezBoundary, fishingPOIs, theme, googleMapRef,
                  monitorMounted, envVars, scripts, fetchState, fetchResponse,
                  locState, settleTimers, retryTimers, pollers, runs, loaderState,
                  failReason, loadAttempts, initCalls, toasts, runsStarted,
                  runsPublished, lastRun, placesFailures, retryClicks, themeChanges >>

\* -------------------------------------------------------------- specification
Next ==
  \/ Mount
  \/ \E i \in 1..Len(scripts) : ScriptLoad(i)
  \/ GoogleAttach
  \/ SettleTimer
  \/ \E i \in 1..Len(scripts) : ScriptError(i)
  \/ RetryTimer
  \/ PollTick
  \/ LocationSuccess
  \/ \E code \in GeoErrorCodes : LocationError(code)
  \/ \E outcome \in FetchOutcomes : FetchSettle(outcome)
  \/ ThemeChange
  \/ RetryClick
  \/ \E r \in 1..Len(runs) : SearchDispatch(r)
  \/ \E r \in 1..Len(runs) : \E index \in runs[r].pending : SearchResponse(r, index)

Spec == Init /\ [][Next]_vars

\* Timers, intervals and the callbacks of started asynchronous operations are
\* run by the event loop, every started request ends in one of its callbacks,
\* and a loaded engine script attaches its API.  Which callback a request
\* ends in, and what the user does, is left to the environment.
Fairness ==
  /\ WF_vars(Mount)
  /\ WF_vars(GoogleAttach)
  /\ WF_vars(SettleTimer)
  /\ WF_vars(RetryTimer)
  /\ WF_vars(PollTick)
  /\ WF_vars(\E i \in 1..Len(scripts) : ScriptLoad(i) \/ ScriptError(i))
  /\ WF_vars(LocationSuccess \/ \E code \in GeoErrorCodes : LocationError(code))
  /\ WF_vars(\E outcome \in FetchOutcomes : FetchSettle(outcome))
  /\ WF_vars(\E r \in 1..Len(runs) : SearchDispatch(r))
  /\ WF_vars(\E r \in 1..Len(runs) : \E index \in runs[r].pending : SearchResponse(r, index))

FairSpec == Init /\ [][Next]_vars /\ Fairness

\* The component on a page where the engine is already present and the
\* geolocation API exists.
EngineReadyPage == windowGoogle = TRUE /\ apiKey = TRUE /\ geoSupported = TRUE

\* The handlers that run on such a page while the user leaves it alone.
PageNext ==
  \/ Mount
  \/ LocationSuccess
  \/ \E code \in GeoErrorCodes : LocationError(code)
  \/ \E outcome \in FetchOutcomes : FetchSettle(outcome)
  \/ \E r \in 1..Len(runs) : SearchDispatch(r)
  \/ \E r \in 1..Len(runs) : \E index \in runs[r].pending : SearchResponse(r, index)

\* One run over SearchCategories categories, with a provider that finds up to
\* MaxResults places per query, or more than the run keeps.
SearchInit ==
  /\ EngineReadyPage
  /\ searches = SubSeq(SearchTable, 1, SearchCategories)
  /\ provider = SearchResponses
  /\ Constructed

SearchSpec == SearchInit /\ [][PageNext]_vars

\* The theme changes once, which re-runs the readiness effect and so starts a
\* second run while the first may still have queries to come.
OverlapThemeChange == themeChanges = 0 /\ ThemeChange

OverlapInit ==
  /\ EngineReadyPage
  /\ searches = SubSeq(SearchTable, 1, MaxCategories)
  /\ provider = SinglePlaceResponses
  /\ Constructed

OverlapNext == PageNext \/ OverlapThemeChange

OverlapSpec == OverlapInit /\ [][OverlapNext]_vars

\* The page on which the map comes up and the monitor, once mounted, is fed
\* location updates.
MonitorInit ==
  /\ EngineReadyPage
  /\ searches = SubSeq(SearchTable, 1, MaxCategories)
  /\ provider = EmptyResponses
  /\ Constructed

MonitorNext ==
  PageNext \/ \E result \in {"inside", "outside"} : MonitorUpdate(result)

MonitorSpec == MonitorInit /\ [][MonitorNext]_vars

\* ---------------------------------------------------------------- properties
SearchStarted == runsStarted > 0

\* A timer of a run has fired: of a run still in runs, or of one that published.
QueryDispatched ==
  runsPublished > 0 \/ \E r \in 1..Len(runs) : runs[r].dispatched > 0

LoadsInFlight == Cardinality({ i \in 1..Len(scripts) : scripts[i].state = "loading" })

\* The error message EngineLoader sets for a failure reason.
LoaderMessage(reason) ==
  IF reason = "missing_credentials" THEN "api_key_missing" ELSE reason

\* A step in which loadGoogleMaps is called.
LoaderCalled == Mount \/ RetryTimer \/ RetryClick

\* C1: whenever a search run has been started (so in particular whenever a
\* provider query has been dispatched) or the FishingBorderMonitor is mounted,
\* the engine is loaded, the location callback has delivered a coordinate and
\* the boundary fetch has settled.
C1_StartOnlyAfterGate ==
  (SearchStarted \/ QueryDispatched \/ monitorMounted)
    => /\ isGoogleMapsLoaded /\ loaderState = "Ready"
       /\ locState = "done" /\ userLocation # "null"
       /\ fetchState \in FetchOutcomes

C1_Witness == monitorMounted /\ QueryDispatched

\* C2: with the engine loaded, a measured location shown in the map view and
\* the boundary fetch settled as absent, the gate has opened and a search run
\* has been started.
C2_AbsentBoundaryOpensGate ==
  ( /\ isGoogleMapsLoaded
    /\ userLocation # "null" /\ ~isLoading /\ error = NoError
    /\ fetchState \in FetchOutcomes \ {"valid"} /\ eezBoundary = "null" )
    => (initCalls > 0 /\ SearchStarted)

\* C3: with the fallback coordinate produced by a failed acquisition, the
\* engine loaded and the boundary loaded, the gate has fired and a search run
\* with the fallback coordinate as origin has been started.
C3_FallbackOpensGate ==
  (userLocation = "fallback" /\ isGoogleMapsLoaded /\ eezBoundary = "loaded")
    => (initCalls > 0 /\ \E r \in 1..Len(runs) : runs[r].origin = "fallback")

\* C4: once a script load has failed (and, the engine never appearing, every
\* load keeps failing), the loader eventually is Failed with reason
\* exhausted_retries, after exactly MaxRetries load attempts.
C4_ExhaustsAfterMaxRetries ==
  ((\E i \in 1..Len(scripts) : scripts[i].state = "failed") /\ ~windowGoogle)
    ~> (\/ windowGoogle
        \/ /\ loaderState = "Failed" /\ failReason = "exhausted_retries"
           /\ loadAttempts = MaxRetries)

\* C5: when the retry timeout set by a failed load fires and the engine is
\* still absent, a new load attempt is started.
C5_RetryRestartsLoad ==
  [][ (retryTimers # << >> /\ retryTimers' = Tail(retryTimers) /\ ~windowGoogle)
        => (loadAttempts' = loadAttempts + 1 /\ LoadsInFlight' = 1) ]_vars

\* C6: while the loader is Failed for missing credentials, the error reported
\* is the missing-credentials message, no script load was started and no
\* retry was counted.
C6_MissingCredentialsReported ==
  (loaderState = "Failed" /\ failReason = "missing_credentials")
    => (error = "api_key_missing" /\ loadAttempts = 0 /\ retryCount = 0)

\* C7 as claimed: when the settle timeout finds the API surface absent and
\* retryCount < MaxRetries, the attempt counter is incremented and a retry is
\* scheduled instead of failing.
C7_AbsentSurfaceRetries ==
  [][ (settleTimers' = settleTimers - 1 /\ ~windowGoogle /\ retryCount < MaxRetries)
        => /\ retryCount' = retryCount + 1
           /\ Len(retryTimers') = Len(retryTimers) + 1
           /\ loaderState' # "Failed" ]_vars

\* C7 as amended: when the settle timeout finds the API surface absent, the
\* loader fails at once with the reason "loaded but API not available": the
\* error is set, loading ends, the attempt counter is not incremented and no
\* retry or load is started.
C7_AbsentSurfaceFailsAtOnce ==
  [][ (settleTimers' = settleTimers - 1 /\ ~windowGoogle)
        => /\ error' = "api_not_available" /\ ~isLoading'
           /\ loaderState' = "Failed" /\ failReason' = "api_not_available"
           /\ retryCount' = retryCount /\ retryTimers' = retryTimers
           /\ loadAttempts' = loadAttempts /\ scripts' = scripts ]_vars

C7_Witness ==
  /\ loaderState = "Failed" /\ failReason = "api_not_available"
  /\ error = "api_not_available" /\ ~isLoading
  /\ retryCount = 0 /\ retryTimers = << >> /\ loadAttempts = 1

\* C8: at most one script load is in flight after every step; a call of
\* loadGoogleMaps during a load in flight adds a readiness poll and no script;
\* a call with the engine already present sets Ready and adds neither a
\* script nor a poll.
C8_SingleLoadInFlight ==
  [][ /\ LoadsInFlight' <= 1
      /\ (LoaderCalled /\ LoadsInFlight = 1)
           => /\ scripts' = scripts /\ loadAttempts' = loadAttempts
              /\ pollers' = pollers + 1
      /\ (LoaderCalled /\ windowGoogle)
           => /\ isGoogleMapsLoaded' /\ loaderState' = "Ready"
              /\ scripts' = scripts /\ loadAttempts' = loadAttempts
              /\ pollers' = pollers ]_vars

C8_Witness == LoadsInFlight = 1 /\ pollers > 0 /\ loadAttempts = 1

\* C9: a loader that is Loading eventually is Ready or Failed.
C9_LoaderTerminates ==
  (loaderState = "Loading") ~> (loaderState \in {"Ready", "Failed"})

\* C10: while the loader is Failed, the error view shows the loader's message
\* (with the retry button the error view always carries).
C10_LoaderErrorShown ==
  (loaderState = "Failed") => (~isLoading /\ error = LoaderMessage(failReason))

\* C11: the step of the retry button starts a new location acquisition and a
\* new boundary fetch next to the new engine load.
C11_RetryRestartsAll ==
  [][ (retryClicks' = retryClicks + 1)
        => (locState' = "pending" /\ fetchState' = "pending") ]_vars

\* A step in which the location acquisition fails: navigator.geolocation is
\* absent at the call, or the error callback runs.
LocationFailed ==
  (Mount /\ ~geoSupported) \/ \E code \in GeoErrorCodes : LocationError(code)

\* The class of each error code, "other" being a code the switch does not name.
ExpectedClass ==
  [ code \in GeoErrorCodes |->
      IF code = "PERMISSION_DENIED" THEN "permission_denied"
      ELSE IF code = "POSITION_UNAVAILABLE" THEN "position_unavailable"
      ELSE IF code = "TIMEOUT" THEN "timeout" ELSE "unknown" ]

\* C19: 'Failed to initialize location services' is set at most once; the
\* call of initializeMap that sets it shows that one error and starts no
\* search run, so none of its categories is queried or fails.
C19_UnavailabilityOnce ==
  [][ /\ placesFailures' <= 1
      /\ (placesFailures' = placesFailures + 1)
           => /\ error' = "places_init_failed" /\ ~isLoading'
              /\ runsStarted' = runsStarted /\ runs' = runs ]_vars

C19_Witness ==
  /\ placesFailures = 1 /\ error = "places_init_failed" /\ ~isLoading
  /\ googleMapRef /\ runsStarted = 0 /\ runs = << >>

\* C20: a failed acquisition leaves exactly one class as the error: the class
\* of its error code, or geo_unsupported where the API is absent; the user
\* coordinate is then the fallback, one notification was raised, and the
\* coordinate is never null once the acquisition is done.
C20_FailureClassified ==
  [][ /\ LocationFailed
           => /\ userLocation' = "fallback" /\ error' \in LocationErrors
              /\ ~isLoading' /\ locState' = "done" /\ toasts' = toasts + 1
      /\ (Mount /\ ~geoSupported) => error' = "geo_unsupported"
      /\ \A code \in GeoErrorCodes :
           LocationError(code) => error' = ExpectedClass[code]
      /\ (locState' = "done") => userLocation' # "null" ]_vars

C20_Witness ==
  locState = "done" /\ userLocation = "fallback" /\ error = "timeout" /\ toasts = 1

\* The elements of a sequence.
Range(seq) == { seq[i] : i \in 1..Len(seq) }

\* The categories of a run whose query has finished.
Finished(run) == { run.log[i].index : i \in 1..Len(run.log) }

\* The categories of a run whose timer has fired.
Dispatched(run) == (0..(Len(searches) - 1)) \ run.timers

\* C12: in every run in progress the completion counter is the number of
\* finished queries, each finished query (answered with any status, or thrown)
\* is counted once, the counter is below the number of categories and the
\* run has not published; a run that has left has counted every category
\* once and has published exactly once, whatever failed and in whatever
\* order the responses came.
C12_PublishedWhenAllFinished ==
  /\ \A r \in 1..Len(runs) :
       /\ runs[r].searchesCompleted = Len(runs[r].log)
       /\ Cardinality(Finished(runs[r])) = Len(runs[r].log)
       /\ Finished(runs[r]) = Dispatched(runs[r]) \ runs[r].pending
       /\ runs[r].searchesCompleted < Len(searches)
       /\ runs[r].published = 0
  /\ runsStarted = runsPublished + Len(runs)
  /\ (runsPublished = 0) => (lastRun = NoRun /\ fishingPOIs = << >>)
  /\ (runsPublished > 0)
       => /\ lastRun.searchesCompleted = Len(searches)
          /\ Len(lastRun.log) = Len(searches)
          /\ Finished(lastRun) = 0..(Len(searches) - 1)
          /\ lastRun.published = 1

\* A run published although a query failed and category 1 finished first.
C12_Witness ==
  /\ runsPublished = 1 /\ Len(lastRun.log) > 1
  /\ lastRun.log[1].index = 1
  /\ \E i \in 1..Len(lastRun.log) : lastRun.log[i].status # "OK"
  /\ fishingPOIs # << >>

\* The entries a finished query contributes: one for each of its first
\* SliceLimit results that has a location, and none unless its status is OK.
EntriesOf(e) ==
  IF e.status # "OK" THEN {}
  ELSE { [ id |-> e.index * IdStride + k, type |-> SearchTable[e.index + 1],
           distance |-> e.results[k + 1].distance ] :
           k \in { j \in 0..(SliceLimit - 1) :
                     j < Len(e.results) /\ e.results[j + 1].geometry } }

\* The entries of all finished queries of a run.
EntriesOfRun(run) == UNION { EntriesOf(run.log[i]) : i \in 1..Len(run.log) }

\* The categories of a run whose query failed.
FailedCategories(run) ==
  { run.log[i].index : i \in { j \in 1..Len(run.log) : run.log[j].status # "OK" } }

\* The category index an entry was made for.
CategoryOf(poi) == poi.id \div IdStride

\* C13: the published sequence holds exactly the entries of the queries of
\* the publishing run that returned OK, each once, and no entry of a category
\* whose query failed.
C13_OnlyOkCategories ==
  (runsPublished > 0)
    => /\ Range(fishingPOIs) = EntriesOfRun(lastRun)
       /\ Len(fishingPOIs) = Cardinality(EntriesOfRun(lastRun))
       /\ \A i \in 1..Len(fishingPOIs) : \A c \in FailedCategories(lastRun) :
            CategoryOf(fishingPOIs[i]) # c /\ fishingPOIs[i].type # SearchTable[c + 1]

\* Category 0 failed and category 1 returned places: the run published the
\* entries of category 1 only.
C13_Witness ==
  /\ runsPublished = 1 /\ FailedCategories(lastRun) = {0}
  /\ Len(fishingPOIs) = SliceLimit
  /\ \A i \in 1..Len(fishingPOIs) : CategoryOf(fishingPOIs[i]) = 1

\* The place of a category in the order the queries of a run finished.
ArrivalOf(run, c) == CHOOSE i \in 1..Len(run.log) : run.log[i].index = c

\* poi was pushed to allPOIs before poi2: its category finished earlier, or
\* both are of one category and poi has the smaller placeIndex.
DiscoveredBefore(run, poi, poi2) ==
  \/ ArrivalOf(run, CategoryOf(poi)) < ArrivalOf(run, CategoryOf(poi2))
  \/ CategoryOf(poi) = CategoryOf(poi2) /\ poi.id < poi2.id

\* C14: the published sequence is ascending by distance, and of two entries
\* at the same distance the one pushed first comes first, in whatever order
\* the categories finished.
C14_SortedStable ==
  (runsPublished > 0)
    => \A i, j \in 1..Len(fishingPOIs) :
         (i < j)
           => /\ fishingPOIs[i].distance <= fishingPOIs[j].distance
              /\ (fishingPOIs[i].distance = fishingPOIs[j].distance)
                   => DiscoveredBefore(lastRun, fishingPOIs[i], fishingPOIs[j])

\* Category 1 finished first: its entries precede the entry of category 0 at
\* the same distance.
C14_Witness ==
  /\ runsPublished = 1 /\ Len(lastRun.log) > 1 /\ lastRun.log[1].index = 1
  /\ \E i, j \in 1..Len(fishingPOIs) :
       /\ i < j /\ fishingPOIs[i].distance = fishingPOIs[j].distance
       /\ CategoryOf(fishingPOIs[i]) = 1 /\ CategoryOf(fishingPOIs[j]) = 0

\* C15: every published entry has id = categoryIndex * IdStride + the index
\* of its result among the results of its category, and no two entries of
\* the published sequence have the same id.
C15_IdsDerivedUnique ==
  (runsPublished > 0)
    => /\ \A i \in 1..Len(fishingPOIs) :
            \E e \in Range(lastRun.log) : \E k \in 0..(Len(e.results) - 1) :
              /\ e.status = "OK" /\ e.results[k + 1].geometry
              /\ fishingPOIs[i].id = e.index * IdStride + k
              /\ fishingPOIs[i].type = SearchTable[e.index + 1]
              /\ fishingPOIs[i].distance = e.results[k + 1].distance
       /\ \A i, j \in 1..Len(fishingPOIs) :
            (i # j) => fishingPOIs[i].id # fishingPOIs[j].id

\* Category 0 returned one place, which got id 0, next to the entries of
\* category 1 with the ids IdStride, IdStride + 1, IdStride + 2.
C15_Witness ==
  /\ runsPublished = 1
  /\ { fishingPOIs[i].id : i \in 1..Len(fishingPOIs) }
       = {0, IdStride, IdStride + 1, IdStride + 2}
  /\ \E e \in Range(lastRun.log) : e.index = 0 /\ Len(e.results) = 1

\* The entries of category c in a sequence of entries.
EntriesOfCategory(pois, c) ==
  { i \in 1..Len(pois) : pois[i].type = SearchTable[c + 1] }

\* C18: no category has more than SliceLimit entries in the published
\* sequence or in the allPOIs of a run in progress, however many results the
\* provider returned for it.
C18_AtMostSlicePerCategory ==
  \A c \in 0..(Len(searches) - 1) :
    /\ Cardinality(EntriesOfCategory(fishingPOIs, c)) <= SliceLimit
    /\ \A r \in 1..Len(runs) :
         Cardinality(EntriesOfCategory(runs[r].allPOIs, c)) <= SliceLimit

\* The provider returned more than SliceLimit results with a location for a
\* category, which has SliceLimit entries in the published sequence.
C18_Witness ==
  /\ runsPublished = 1
  /\ \E e \in Range(lastRun.log) :
       /\ e.status = "OK" /\ Len(e.results) > SliceLimit
       /\ \A k \in 1..Len(e.results) : e.results[k].geometry
       /\ Cardinality(EntriesOfCategory(fishingPOIs, e.index)) = SliceLimit

\* Run r as the step leaves it: in runs, or in lastRun when the step was its
\* last.
After(r) ==
  IF \E q \in 1..Len(runs') : runs'[q].serial = runs[r].serial
    THEN runs'[CHOOSE q \in 1..Len(runs') : runs'[q].serial = runs[r].serial]
    ELSE lastRun'

\* C17: the k-th query a run dispatches is the query of category k, sent by
\* the timer set with the delay k * StaggerMs: every category before it has
\* been dispatched and none after it.
C17_DispatchInListOrder ==
  [][ \A r \in 1..Len(runs) :
        (After(r).dispatched = runs[r].dispatched + 1)
          => /\ runs[r].timers \ After(r).timers = {runs[r].dispatched}
             /\ StaggerDelay(runs[r].dispatched) = runs[r].dispatched * StaggerMs
             /\ \A j \in After(r).timers : j > runs[r].dispatched
             /\ Dispatched(After(r)) = 0..runs[r].dispatched ]_vars

\* Both queries are dispatched and the query of category 1 has finished
\* while the query of category 0 still awaits its response.
C17_Witness ==
  /\ Len(runs) = 1 /\ runs[1].dispatched = 2
  /\ runs[1].pending = {0} /\ Finished(runs[1]) = {1}

\* C16: the published sequence is at every moment the whole sequence of one
\* run, the one that published last, and holds nothing of any other run:
\* each of its entries was made from a response of that run, once.
C16_LastAggregationWins ==
  /\ (runsPublished = 0) => fishingPOIs = << >>
  /\ (runsPublished > 0)
       => /\ fishingPOIs = lastRun.allPOIs
          /\ Len(fishingPOIs) = Cardinality(EntriesOfRun(lastRun))
          /\ \A i \in 1..Len(fishingPOIs) : fishingPOIs[i] \in EntriesOfRun(lastRun)

\* The second run published first and the first run, still in progress then,
\* published after it: the sequence shown is that of the first run.
C16_Witness ==
  /\ runsStarted = 2 /\ runsPublished = 2 /\ runs = << >>
  /\ lastRun.serial = 0 /\ fishingPOIs # << >>

\* C21: the step in which a call of getCurrentLocation comes to its outcome
\* (the position, an error code, or no geolocation API) raises exactly one
\* toast, and no other step raises one; so a finished call has raised one
\* and a pending call none.
C21_OneNotificationPerCall ==
  [][ /\ toasts' = toasts + (IF locState' = "done" /\ locState # "done" THEN 1 ELSE 0)
      /\ toasts' = (IF locState' = "done" THEN 1 ELSE 0) ]_vars

C21_Witness ==
  locState = "done" /\ userLocation = "measured" /\ error = NoError /\ toasts = 1

\* The response is a feature collection with at least one feature.
ValidCollection(resp) ==
  /\ ~resp.rejected /\ resp.ok
  /\ resp.type = "FeatureCollection" /\ resp.features >= 1

\* C22: once the fetch has settled, the boundary is stored exactly when the
\* response is a feature collection with at least one feature and is absent
\* after every other response; the step that settles the fetch raises
\* nothing: it leaves the error and the loading flag as they were.
C22_InvalidFetchIsAbsent ==
  [][ (fetchState = "pending" /\ fetchState' # "pending")
        => /\ fetchResponse' \in FetchResponses
           /\ eezBoundary' = (IF ValidCollection(fetchResponse') THEN "loaded" ELSE "null")
           /\ (~ValidCollection(fetchResponse'))
                => (error' = error /\ isLoading' = isLoading) ]_vars

\* The service answered 200 with a feature collection without features.
C22_Witness ==
  /\ fetchResponse.ok /\ fetchResponse.type = "FeatureCollection"
  /\ fetchResponse.features = 0
  /\ fetchState = "zero_features" /\ eezBoundary = "null"

\* The boundary fetch has settled.
FetchSettled == fetchState \notin {"idle", "pending"}

\* C23: a fetch is started only from the state in which none was started,
\* and once it has settled no step changes its outcome or the boundary: an
\* absent boundary stays absent and a loaded one stays loaded.
C23_FetchedOnceNeverRetried ==
  [][ /\ (fetchState' = "pending" /\ fetchState # "pending") => fetchState = "idle"
      /\ FetchSettled
           => /\ fetchState' = fetchState /\ fetchResponse' = fetchResponse
              /\ eezBoundary' = eezBoundary ]_vars

\* The fetch failed, the user pressed Retry, and the boundary is still absent.
C23_Witness ==
  /\ fetchState = "transport_error" /\ eezBoundary = "null"
  /\ retryClicks > 0 /\ loaderState = "Ready"

\* A step in which the boundary fetch settles as a failure.
FailedFetchStep ==
  fetchState = "pending" /\ fetchState' \in FetchOutcomes \ {"valid"}

\* Run r finishes a query in this step without the status OK.
FailedQueryStep(r) ==
  /\ Len(After(r).log) = Len(runs[r].log) + 1
  /\ After(r).log[Len(After(r).log)].status # "OK"

RECURSIVE ChangesFrom(_, _)
ChangesFrom(evals, i) ==
  IF i > Len(evals) THEN << >>
  ELSE (IF evals[i] = evals[i - 1] THEN << >>
        ELSE IF evals[i] = "inside" THEN << "entered" >> ELSE << "exited" >>)
       \o ChangesFrom(evals, i + 1)

\* C25: the crossing log holds one alert for each change of the containment
\* result between consecutive evaluations, entered or exited by the direction
\* of the change and in the order of the changes, and nothing else: nothing
\* for the first evaluation, nothing where two evaluations agree.
C25_OneEventPerChange ==
  /\ borderAlerts = ChangesFrom(evaluations, 2)
  /\ (Len(evaluations) <= 1) => borderAlerts = << >>

C25_Witness ==
  /\ evaluations = << "outside", "outside", "inside", "inside", "outside" >>
  /\ borderAlerts = << "entered", "exited" >>

\* C26: in one page session at most one engine script element is appended to
\* the document: the count of appended scripts never exceeds one and the
\* document never holds more than one script element (the one appended, or
\* the one the page came with), so a call of loadGoogleMaps made while a
\* script exists, loading, loaded or failed, appends none.
C26_OneScriptPerSession ==
  /\ loadAttempts <= 1
  /\ Len(scripts) <= 1
  /\ loadAttempts <= Len(scripts)

\* loadGoogleMaps was called again after the only script had failed, and it
\* started a poll instead of appending a script.
C26_Witness ==
  /\ Len(scripts) = 1 /\ scripts[1].state = "failed"
  /\ pollers > 0 /\ loadAttempts = 1 /\ retryCount > 0

\* C27: in a run, in progress or left, the completion counter never exceeds
\* the number of categories and setFishingPOIs was called at most once; over
\* the session no more sequences were published than runs were started.
\* (Every dispatched query finishes once: its callback or its catch block.)
C27_CounterAndPublishBounded ==
  /\ \A r \in 1..Len(runs) :
       /\ runs[r].searchesCompleted <= Len(searches)
       /\ runs[r].published <= 1
  /\ lastRun.searchesCompleted <= Len(searches)
  /\ lastRun.published <= 1
  /\ runsPublished <= runsStarted

\* A run whose queries all threw counted each of them and published once.
C27_Witness ==
  /\ runsPublished = 1 /\ runsStarted = 1 /\ Len(searches) > 1
  /\ lastRun.searchesCompleted = Len(searches)
  /\ \A i \in 1..Len(lastRun.log) : lastRun.log[i].status = "THROWN"
  /\ lastRun.published = 1

\* C28: the monitor is never mounted with an absent boundary: whenever a map
\* handle exists, and whenever the monitor is rendered, eezBoundary is the
\* feature collection with features that the fetch returned; the rendered
\* monitor also has a map handle and a location.
C28_MonitorHasBoundary ==
  /\ googleMapRef => (eezBoundary = "loaded" /\ ValidCollection(fetchResponse))
  /\ monitorMounted
       => /\ googleMapRef /\ userLocation # "null"
          /\ eezBoundary = "loaded" /\ ValidCollection(fetchResponse)

C28_Witness ==
  /\ monitorMounted /\ googleMapRef /\ initCalls > 0
  /\ eezBoundary = "loaded" /\ fetchResponse.features >= 1

\* C29: after the Retry button was pressed, the component eventually leaves
\* the loading state: isLoading is false again, and the map view or an error
\* view is shown.
C29_RetryLeavesLoading ==
  (retryClicks > 0 /\ isLoading) ~> (~isLoading)

====
